---- MODULE Spec2Model ----
(***************************************************************************)
(* Client session controller of VoxStream (src/src/App.jsx): the React    *)
(* component App with its liveness probe, its two WebSocket channels and  *)
(* the user actions.  The server is the environment: it answers probes    *)
(* and control requests, opens and closes channels and sends payloads.    *)
(***************************************************************************)
EXTENDS Naturals, Sequences, FiniteSets, Bags, TLC

(* ---------------------------------------------------------------- bounds *)
\* requests (probes and control requests) that may be in flight at once
MaxInFlight == 2
\* transcription fragments received between two clear actions
MaxFragments == 2

(* ------------------------------------------------------------ vocabulary *)
Phases == {"disconnected", "connecting", "connected"}

\* WebSocket.readyState; "null" is a ref that holds no socket yet
ReadyStates == {"CONNECTING", "OPEN", "CLOSING", "CLOSED"}

Fields == {"is_recording", "is_running", "is_shut_down", "is_initializing"}

Actions == {"start", "shutdown"}

\* a string is the sequence of its characters
Space == <<" ">>

Texts == {<< >>, <<"a">>, <<"b">>}

\* what the clipboard holds before the page writes to it
ForeignText == <<"?">>

\* useState initial value of status
InitialStatus ==
  [is_recording |-> FALSE, is_running |-> FALSE,
   is_shut_down |-> TRUE, is_initializing |-> FALSE]

\* the snapshots the server sends (EngineStatus of the spec, section 3):
\* is_shut_down implies neither recording nor running, and recording and
\* initializing are not both set
ServerSnapshots ==
  {s \in [Fields -> BOOLEAN] :
     /\ s["is_shut_down"] => ~s["is_recording"] /\ ~s["is_running"]
     /\ ~(s["is_recording"] /\ s["is_initializing"])}

\* status objects a "status" message may carry: the server's snapshots, the
\* empty object and an object with a single field
StatusObjects ==
  ServerSnapshots \cup {[f \in {} |-> TRUE], [f \in {"is_recording"} |-> TRUE]}

\* status.<f> read as a condition: a missing field is undefined, hence falsy
Flag(s, f) == f \in DOMAIN s /\ s[f]

NoStatus == [f \in {} |-> TRUE]

\* event.data of a channel message.  wellFormed: the string is JSON;
\* kind: what it parses to; type, text, hasStatus, status: the members of
\* a parsed object (text << >> is also an absent text: both are falsy)
Payload(w, k, ty, tx, hs, st) ==
  [wellFormed |-> w, kind |-> k, type |-> ty, text |-> tx,
   hasStatus |-> hs, status |-> st]

\* payloads that carry no status object: not JSON, null, a number, an
\* "error" message, a "status" message without status, and the fragments
PlainPayloads ==
  {Payload(FALSE, "none", "none", << >>, FALSE, NoStatus),
   Payload(TRUE, "null", "none", << >>, FALSE, NoStatus),
   Payload(TRUE, "number", "none", << >>, FALSE, NoStatus),
   Payload(TRUE, "object", "error", << >>, FALSE, NoStatus),
   Payload(TRUE, "object", "status", << >>, FALSE, NoStatus)}
  \cup {Payload(TRUE, "object", "transcription", t, FALSE, NoStatus) : t \in Texts}

StatusPayload(s) == Payload(TRUE, "object", "status", << >>, TRUE, s)

\* what the transcript channel may deliver: one "status" message among it
TextChannelPayloads == PlainPayloads \cup {StatusPayload(InitialStatus)}

\* what the status channel may deliver
StatusChannelPayloads == PlainPayloads \cup {StatusPayload(s) : s \in StatusObjects}

VARIABLES
  text,              \* useState text: the transcript buffer
  isServerRunning,   \* useState isServerRunning
  status,            \* useState status
  connectionStatus,  \* useState connectionStatus (the spec's connectionPhase)
  textWs,            \* readyState of textWs.current, or "null"
  statusWs,          \* readyState of statusWs.current, or "null"
  oldSockets,        \* sockets the refs no longer hold and that are not CLOSED yet
  probes,            \* bag of probes in flight, each the connectionStatus its closure captured
  controls,          \* bag of control requests in flight: [action, conn]
  mounted,           \* the component is mounted (the interval runs, state setters act)
  consoleError,      \* the last line written with console.error
  received,          \* texts of the "transcription" messages delivered since the last clear
  isCopying,         \* useState isCopying
  copyTimeouts,      \* some timeout armed by copyToClipboard is pending
  clipboard          \* the text on the system clipboard

\* the state copyToClipboard works on
copyState == <<isCopying, copyTimeouts, clipboard>>

vars == <<text, isServerRunning, status, connectionStatus, textWs, statusWs,
          oldSockets, probes, controls, mounted, consoleError, received,
          isCopying, copyTimeouts, clipboard>>

InFlight == BagCardinality(probes) + BagCardinality(controls)

OneOf(x) == SetToBag({x})

(* ------------------------------------------------------- pure operations *)
\* a React state setter: a no-op once the component is unmounted
SetState(cur, new) == IF mounted THEN new ELSE cur

\* WebSocket.close(): starts the closing handshake of a live socket
CloseSocket(rs) == IF rs \in {"CONNECTING", "OPEN"} THEN "CLOSING" ELSE rs

\* the sockets a ref leaves behind when it is closed and overwritten
Released(chan, rs) ==
  IF rs = "null" \/ CloseSocket(rs) = "CLOSED" THEN {}
  ELSE {[chan |-> chan, readyState |-> CloseSocket(rs)]}

\* mutant of NeedsConnect: reconnect unless the socket is OPEN
NeedsConnectUnlessOpen(ws) == ws # "OPEN"

\* checkServer's test before connectWebSockets
NeedsConnect(ws) == ws = "null" \/ ws = "CLOSED"

\* connectWebSockets' guard, on the connectionStatus its closure captured
ConnectInProgress(captured) == captured = "connecting"

\* mutant of FailedProbeStatus: the spread without is_shut_down
FailedProbeStatusNoShutdown(prev) ==
  [f \in DOMAIN prev \cup {"is_initializing"} |->
     IF f = "is_initializing" THEN FALSE ELSE prev[f]]

\* setStatus(prev => ({...prev, is_shut_down: true, is_initializing: false}))
FailedProbeStatus(prev) ==
  [f \in DOMAIN prev \cup {"is_shut_down", "is_initializing"} |->
     IF f = "is_shut_down" THEN TRUE
     ELSE IF f = "is_initializing" THEN FALSE
     ELSE prev[f]]

\* JSON.parse(event.data) followed by the read of data.type: throws on a
\* string that is not JSON (SyntaxError) and on null (TypeError)
ParseThrows(p) == ~p.wellFormed \/ p.kind = "null"

\* mutant of AppendText: the new fragment is put in front of the buffer
AppendTextInFront(prev, t) == IF Len(prev) > 0 THEN t \o Space \o prev ELSE t

\* setText(prev => (prev ? prev + " " + data.text : data.text))
AppendText(prev, t) == IF Len(prev) > 0 THEN prev \o Space \o t ELSE t

\* mutant of TextAfter: the catch block resets the buffer
TextAfterResetOnError(prev, p) ==
  IF ParseThrows(p) THEN << >>
  ELSE IF p.type = "transcription" /\ Len(p.text) > 0 THEN AppendText(prev, p.text)
  ELSE prev

\* textWs.onmessage: the buffer after the payload
TextAfter(prev, p) ==
  IF ParseThrows(p) THEN prev
  ELSE IF p.type = "transcription" /\ Len(p.text) > 0 THEN AppendText(prev, p.text)
  ELSE prev

\* mutant of StatusAfter: setStatus(prev => ({...prev, ...data.status}))
StatusAfterMerged(prev, p) ==
  IF ParseThrows(p) THEN prev
  ELSE IF p.type = "status" /\ p.hasStatus
    THEN [f \in DOMAIN prev \cup DOMAIN p.status |->
            IF f \in DOMAIN p.status THEN p.status[f] ELSE prev[f]]
  ELSE prev

\* statusWs.onmessage: the status after the payload
StatusAfter(prev, p) ==
  IF ParseThrows(p) THEN prev
  ELSE IF p.type = "status" /\ p.hasStatus THEN p.status
  ELSE prev

(* ----------------------------------------------------------------- state *)
\* after the first render and the mount effect: checkServer() is in flight,
\* called from the first render's closure (connectionStatus "disconnected")
Init ==
  /\ text = << >>
  /\ isServerRunning = FALSE
  /\ status = InitialStatus
  /\ connectionStatus = "disconnected"
  /\ textWs = "null"
  /\ statusWs = "null"
  /\ oldSockets = {}
  /\ probes = OneOf("disconnected")
  /\ controls = EmptyBag
  /\ mounted = TRUE
  /\ consoleError = "none"
  /\ received = << >>
  /\ isCopying = FALSE
  /\ copyTimeouts = FALSE
  /\ clipboard = ForeignText

(* --------------------------------------------------------------- actions *)
\* setInterval(checkServer, 5000): the interval calls the first render's
\* checkServer, whose connectWebSockets reads connectionStatus "disconnected"
Tick ==
  /\ mounted
  /\ InFlight < MaxInFlight
  /\ probes' = probes (+) OneOf("disconnected")
  /\ UNCHANGED copyState
  /\ UNCHANGED <<text, isServerRunning, status, connectionStatus, textWs,
                 statusWs, oldSockets, controls, mounted, consoleError, received>>

\* checkServer, response.ok: lines 40-44 and connectWebSockets 55-61, 85-86
ProbeOk(c) ==
  /\ BagIn(c, probes)
  /\ probes' = probes (-) OneOf(c)
  /\ isServerRunning' = SetState(isServerRunning, TRUE)
  /\ IF NeedsConnect(textWs) /\ ~ConnectInProgress(c)
       THEN /\ connectionStatus' = SetState(connectionStatus, "connecting")
            /\ oldSockets' = oldSockets \cup Released("text", textWs)
                                        \cup Released("status", statusWs)
            /\ textWs' = "CONNECTING"
            /\ statusWs' = "CONNECTING"
       ELSE UNCHANGED <<connectionStatus, oldSockets, textWs, statusWs>>
  /\ UNCHANGED copyState
  /\ UNCHANGED <<text, status, controls, mounted, consoleError, received>>

\* mutant of ProbeFail: the failed probe also resets the buffer
ProbeFailResetsText(c) ==
  /\ BagIn(c, probes)
  /\ probes' = probes (-) OneOf(c)
  /\ isServerRunning' = SetState(isServerRunning, FALSE)
  /\ connectionStatus' = SetState(connectionStatus, "disconnected")
  /\ status' = SetState(status, FailedProbeStatus(status))
  /\ text' = SetState(text, << >>)
  /\ received' = IF mounted THEN << >> ELSE received
  /\ UNCHANGED copyState
  /\ UNCHANGED <<textWs, statusWs, oldSockets, controls, mounted, consoleError>>

\* checkServer, fetch rejected or response not ok: lines 48-52
ProbeFail(c) ==
  /\ BagIn(c, probes)
  /\ probes' = probes (-) OneOf(c)
  /\ isServerRunning' = SetState(isServerRunning, FALSE)
  /\ connectionStatus' = SetState(connectionStatus, "disconnected")
  /\ status' = SetState(status, FailedProbeStatus(status))
  /\ UNCHANGED copyState
  /\ UNCHANGED <<text, textWs, statusWs, oldSockets, controls, mounted,
                 consoleError, received>>

\* textWs.current.onopen
TextOpen ==
  /\ textWs = "CONNECTING"
  /\ textWs' = "OPEN"
  /\ connectionStatus' = SetState(connectionStatus, "connected")
  /\ UNCHANGED copyState
  /\ UNCHANGED <<text, isServerRunning, status, statusWs, oldSockets, probes,
                 controls, mounted, consoleError, received>>

\* textWs.current.onclose: the socket fails, is closed by the server, or
\* finishes the handshake close() started
TextClose ==
  /\ textWs \in {"CONNECTING", "OPEN", "CLOSING"}
  /\ textWs' = "CLOSED"
  /\ connectionStatus' = SetState(connectionStatus, "disconnected")
  /\ UNCHANGED copyState
  /\ UNCHANGED <<text, isServerRunning, status, statusWs, oldSockets, probes,
                 controls, mounted, consoleError, received>>

\* mutant of TextMessage: the transcript handler also applies "status"
\* messages
TextMessageAnyKind(p) ==
  /\ textWs = "OPEN"
  /\ ~ParseThrows(p) /\ p.type = "transcription" => Len(received) < MaxFragments
  /\ text' = SetState(text, TextAfter(text, p))
  /\ status' = SetState(status, StatusAfter(status, p))
  /\ consoleError' = IF ParseThrows(p) THEN "Failed to parse transcription message"
                     ELSE consoleError
  /\ received' = IF ~ParseThrows(p) /\ p.type = "transcription" /\ mounted
                   THEN Append(received, p.text) ELSE received
  /\ UNCHANGED copyState
  /\ UNCHANGED <<isServerRunning, connectionStatus, textWs, statusWs,
                 oldSockets, probes, controls, mounted>>

\* textWs.current.onmessage
TextMessage(p) ==
  /\ textWs = "OPEN"
  /\ ~ParseThrows(p) /\ p.type = "transcription" => Len(received) < MaxFragments
  /\ text' = SetState(text, TextAfter(text, p))
  /\ consoleError' = IF ParseThrows(p) THEN "Failed to parse transcription message"
                     ELSE consoleError
  /\ received' = IF ~ParseThrows(p) /\ p.type = "transcription" /\ mounted
                   THEN Append(received, p.text) ELSE received
  /\ UNCHANGED copyState
  /\ UNCHANGED <<isServerRunning, status, connectionStatus, textWs, statusWs,
                 oldSockets, probes, controls, mounted>>

\* the status socket opens: no handler is attached to the event
StatusOpen ==
  /\ statusWs = "CONNECTING"
  /\ statusWs' = "OPEN"
  /\ UNCHANGED copyState
  /\ UNCHANGED <<text, isServerRunning, status, connectionStatus, textWs,
                 oldSockets, probes, controls, mounted, consoleError, received>>

\* the status socket closes: no handler is attached to the event
StatusClose ==
  /\ statusWs \in {"CONNECTING", "OPEN", "CLOSING"}
  /\ statusWs' = "CLOSED"
  /\ UNCHANGED copyState
  /\ UNCHANGED <<text, isServerRunning, status, connectionStatus, textWs,
                 oldSockets, probes, controls, mounted, consoleError, received>>

\* statusWs.current.onmessage
StatusMessage(p) ==
  /\ statusWs = "OPEN"
  /\ status' = SetState(status, StatusAfter(status, p))
  /\ consoleError' = IF ParseThrows(p) THEN "Failed to parse status message"
                     ELSE consoleError
  /\ UNCHANGED copyState
  /\ UNCHANGED <<text, isServerRunning, connectionStatus, textWs, statusWs,
                 oldSockets, probes, controls, mounted, received>>

\* a socket that was closed and replaced reaches CLOSED; a transcript
\* socket still runs its onclose handler
OldSocketClosed(s) ==
  /\ s \in oldSockets
  /\ oldSockets' = oldSockets \ {s}
  /\ connectionStatus' = IF s.chan = "text"
                           THEN SetState(connectionStatus, "disconnected")
                           ELSE connectionStatus
  /\ UNCHANGED copyState
  /\ UNCHANGED <<text, isServerRunning, status, textWs, statusWs, probes,
                 controls, mounted, consoleError, received>>

\* mutant of ButtonEnabled: the start button ignores is_initializing
ButtonEnabledWhileInitializing(a, s) ==
  IF a = "start" THEN Flag(s, "is_shut_down") ELSE ~Flag(s, "is_shut_down")

\* the disabled attribute of the two Engine Control buttons
ButtonEnabled(a, s) ==
  IF a = "start" THEN ~(~Flag(s, "is_shut_down") \/ Flag(s, "is_initializing"))
  ELSE ~Flag(s, "is_shut_down")

\* onClick={() => handleAction(a)}: the control request leaves; the closure
\* of this render is the one that will call checkServer
Click(a) ==
  /\ mounted
  /\ ButtonEnabled(a, status)
  /\ InFlight < MaxInFlight
  /\ controls' = controls (+) OneOf([action |-> a, conn |-> connectionStatus])
  /\ UNCHANGED copyState
  /\ UNCHANGED <<text, isServerRunning, status, connectionStatus, textWs,
                 statusWs, oldSockets, probes, mounted, consoleError, received>>

\* mutant of ControlOk: handleAction without the call of checkServer
ControlOkWithoutProbe(r) ==
  /\ BagIn(r, controls)
  /\ controls' = controls (-) OneOf(r)
  /\ UNCHANGED copyState
  /\ UNCHANGED <<text, isServerRunning, status, connectionStatus, textWs,
                 statusWs, oldSockets, probes, mounted, consoleError, received>>

\* handleAction, response.ok: checkServer() of the captured closure starts
ControlOk(r) ==
  /\ BagIn(r, controls)
  /\ controls' = controls (-) OneOf(r)
  /\ probes' = probes (+) OneOf(r.conn)
  /\ UNCHANGED copyState
  /\ UNCHANGED <<text, isServerRunning, status, connectionStatus, textWs,
                 statusWs, oldSockets, mounted, consoleError, received>>

\* handleAction, response not ok (nothing happens) or fetch rejected (logged)
ControlFail(r, rejected) ==
  /\ BagIn(r, controls)
  /\ controls' = controls (-) OneOf(r)
  /\ consoleError' = IF rejected THEN "Failed to " \o r.action ELSE consoleError
  /\ UNCHANGED copyState
  /\ UNCHANGED <<text, isServerRunning, status, connectionStatus, textWs,
                 statusWs, oldSockets, probes, mounted, received>>

\* mutant of ClearText: clearing also resets the status
ClearTextAndStatus ==
  /\ mounted
  /\ text' = << >>
  /\ received' = << >>
  /\ status' = InitialStatus
  /\ UNCHANGED copyState
  /\ UNCHANGED <<isServerRunning, connectionStatus, textWs, statusWs,
                 oldSockets, probes, controls, mounted, consoleError>>

\* clearText
ClearText ==
  /\ mounted
  /\ text' = << >>
  /\ received' = << >>
  /\ UNCHANGED copyState
  /\ UNCHANGED <<isServerRunning, status, connectionStatus, textWs, statusWs,
                 oldSockets, probes, controls, mounted, consoleError>>

\* the cleanup of the mount effect: clearInterval and close() on both refs
Unmount ==
  /\ mounted
  /\ mounted' = FALSE
  /\ textWs' = CloseSocket(textWs)
  /\ statusWs' = CloseSocket(statusWs)
  /\ UNCHANGED copyState
  /\ UNCHANGED <<text, isServerRunning, status, connectionStatus, oldSockets,
                 probes, controls, consoleError, received>>

\* copyToClipboard: writes the buffer to the clipboard, shows the check
\* mark and arms a timeout that takes it back
copyToClipboard ==
  /\ mounted
  /\ clipboard' = text
  /\ isCopying' = TRUE
  /\ copyTimeouts' = TRUE
  /\ UNCHANGED <<text, isServerRunning, status, connectionStatus, textWs,
                 statusWs, oldSockets, probes, controls, mounted, consoleError,
                 received>>

\* a timeout armed by copyToClipboard fires: setIsCopying(false); timeouts
\* of other presses may still be pending
CopyTimeout ==
  /\ copyTimeouts
  /\ isCopying' = SetState(isCopying, FALSE)
  /\ copyTimeouts' \in BOOLEAN
  /\ UNCHANGED <<text, isServerRunning, status, connectionStatus, textWs,
                 statusWs, oldSockets, probes, controls, mounted, consoleError,
                 received, clipboard>>

\* payloads of the connection-lifecycle specification: one fragment on the
\* transcript channel, two full snapshots on the status channel
LifecycleTextPayloads ==
  {Payload(TRUE, "object", "transcription", <<"a">>, FALSE, NoStatus)}

LifecycleStatusPayloads ==
  {StatusPayload([is_recording |-> TRUE, is_running |-> TRUE,
                  is_shut_down |-> FALSE, is_initializing |-> FALSE]),
   StatusPayload([is_recording |-> FALSE, is_running |-> FALSE,
                  is_shut_down |-> TRUE, is_initializing |-> TRUE])}

\* the whole controller: every handler, with the lifecycle payloads
Next ==
  \/ Tick
  \/ \E c \in Phases : ProbeOk(c)
  \/ \E c \in Phases : ProbeFail(c)
  \/ TextOpen
  \/ TextClose
  \/ \E p \in LifecycleTextPayloads : TextMessage(p)
  \/ StatusOpen
  \/ StatusClose
  \/ \E p \in LifecycleStatusPayloads : StatusMessage(p)
  \/ \E s \in oldSockets : OldSocketClosed(s)
  \/ \E a \in Actions : Click(a)
  \/ \E r \in BagToSet(controls) : ControlOk(r)
  \/ \E r \in BagToSet(controls), rejected \in BOOLEAN : ControlFail(r, rejected)
  \/ ClearText
  \/ Unmount

Spec == Init /\ [][Next]_vars

\* the scheduling the runtime guarantees: the interval keeps firing while
\* the component is mounted (strongly fair: the timer does not wait for the
\* requests in flight, only the model's MaxInFlight makes it skip a turn),
\* every request gets its response or rejection, and a socket that is
\* connecting or closing ends up open or closed
FairSpec ==
  /\ Spec
  /\ SF_vars(Tick)
  /\ WF_vars(\E c \in Phases : ProbeOk(c) \/ ProbeFail(c))
  /\ WF_vars(\E r \in BagToSet(controls), rejected \in BOOLEAN :
               ControlOk(r) \/ ControlFail(r, rejected))
  /\ WF_vars(TextOpen \/ (textWs \in {"CONNECTING", "CLOSING"} /\ TextClose))
  /\ WF_vars(StatusOpen \/ (statusWs \in {"CONNECTING", "CLOSING"} /\ StatusClose))
  /\ WF_vars(\E s \in oldSockets : OldSocketClosed(s))

\* transcript handling: every payload on the transcript channel, in a
\* session in which the user presses neither Engine Control button
TextNext ==
  \/ Tick
  \/ \E c \in Phases : ProbeOk(c)
  \/ \E c \in Phases : ProbeFail(c)
  \/ TextOpen
  \/ TextClose
  \/ \E p \in TextChannelPayloads : TextMessage(p)
  \/ StatusOpen
  \/ StatusClose
  \/ \E p \in PlainPayloads \cup LifecycleStatusPayloads : StatusMessage(p)
  \/ \E s \in oldSockets : OldSocketClosed(s)
  \/ ClearText
  \/ Unmount

TextSpec == Init /\ [][TextNext]_vars

\* status handling: every payload on the status channel, in a session in
\* which the user presses neither Engine Control button
StatusNext ==
  \/ Tick
  \/ \E c \in Phases : ProbeOk(c)
  \/ \E c \in Phases : ProbeFail(c)
  \/ TextOpen
  \/ TextClose
  \/ \E p \in LifecycleTextPayloads : TextMessage(p)
  \/ StatusOpen
  \/ StatusClose
  \/ \E p \in StatusChannelPayloads : StatusMessage(p)
  \/ \E s \in oldSockets : OldSocketClosed(s)
  \/ ClearText
  \/ Unmount

StatusSpec == Init /\ [][StatusNext]_vars

\* payloads of the user-interface specification: one snapshot of a running
\* engine on the status channel
UiStatusPayloads ==
  {StatusPayload([is_recording |-> TRUE, is_running |-> TRUE,
                  is_shut_down |-> FALSE, is_initializing |-> FALSE])}

\* the mounted controller with the transcript panel's buttons: every
\* handler, one fragment and one snapshot; a control request is answered
\* with an ok or a non-ok response
UiNext ==
  \/ Tick
  \/ \E c \in Phases : ProbeOk(c)
  \/ \E c \in Phases : ProbeFail(c)
  \/ TextOpen
  \/ TextClose
  \/ \E p \in LifecycleTextPayloads : TextMessage(p)
  \/ StatusOpen
  \/ StatusClose
  \/ \E p \in UiStatusPayloads : StatusMessage(p)
  \/ \E s \in oldSockets : OldSocketClosed(s)
  \/ \E a \in Actions : Click(a)
  \/ \E r \in BagToSet(controls) : ControlOk(r)
  \/ \E r \in BagToSet(controls) : ControlFail(r, FALSE)
  \/ ClearText
  \/ copyToClipboard
  \/ CopyTimeout

UiSpec == Init /\ [][UiNext]_vars

(* ---------------------------------------------------------------- claims *)
\* a step in which a probe of the mounted component failed
ProbeFailed ==
  /\ mounted
  /\ BagCardinality(probes') < BagCardinality(probes)
  /\ ~isServerRunning'

\* a step in which a probe of the mounted component succeeded
ProbeSucceeded ==
  /\ mounted
  /\ BagCardinality(probes') < BagCardinality(probes)
  /\ isServerRunning'

FullyActive ==
  [is_recording |-> TRUE, is_running |-> TRUE,
   is_shut_down |-> FALSE, is_initializing |-> FALSE]

\* C2: immediately after any failed probe the local status has
\* is_shut_down = true, whatever the status was before the probe
C2_FailedProbeShutsDown ==
  [][ProbeFailed => Flag(status', "is_shut_down")]_vars

\* C2 witness: a probe has failed on a fully active status (no message
\* carries is_recording and is_running together with is_shut_down)
C2_Witness ==
  /\ mounted /\ ~isServerRunning
  /\ status = [FullyActive EXCEPT !["is_shut_down"] = TRUE]

\* C3: a failed probe marks the server unreachable, sets connectionPhase to
\* disconnected and forces the status to the safe default: is_shut_down
\* true and is_recording, is_running and is_initializing all false
C3_FailedProbeSafeDefault ==
  [][ProbeFailed =>
       /\ ~isServerRunning'
       /\ connectionStatus' = "disconnected"
       /\ Flag(status', "is_shut_down")
       /\ ~Flag(status', "is_recording")
       /\ ~Flag(status', "is_running")
       /\ ~Flag(status', "is_initializing")]_vars

\* the texts of a sequence joined by single spaces
RECURSIVE JoinWithSpaces(_)
JoinWithSpaces(ts) ==
  IF Len(ts) = 0 THEN << >>
  ELSE IF Len(ts) = 1 THEN ts[1]
  ELSE ts[1] \o Space \o JoinWithSpaces(Tail(ts))

NonEmpty(t) == Len(t) > 0

\* C4 as claimed: the buffer is the texts of all "transcription" messages
\* received since it was last empty by construction or clear, joined by
\* single spaces in arrival order, empty texts included
C4_BufferJoinsEveryText ==
  mounted => text = JoinWithSpaces(received)

\* C4 amended: the buffer is the non-empty texts of the "transcription"
\* messages, joined by single spaces in arrival order; a message with an
\* empty text leaves the buffer as it is
C4_BufferJoinsNonEmptyTexts ==
  mounted => text = JoinWithSpaces(SelectSeq(received, NonEmpty))

\* C4 witness: two fragments with the same text have arrived
C4_Witness ==
  /\ mounted
  /\ received = << <<"a">>, <<"a">> >>
  /\ text = <<"a", " ", "a">>

\* payloads that are not JSON or that parse to something that is no object
MalformedPayloads ==
  {p \in TextChannelPayloads \cup StatusChannelPayloads :
     ~p.wellFormed \/ p.kind # "object"}

\* C9: a payload that is not JSON or parses to a non-object, on either
\* channel, is dropped: the channel stays open and buffer, status,
\* connectionPhase and the rest of the controller's state are unchanged, so
\* the next message meets the state it would have met without it
C9_MalformedPayloadDropped ==
  [][\A p \in MalformedPayloads :
       TextMessage(p) \/ StatusMessage(p) =>
         UNCHANGED <<text, status, connectionStatus, isServerRunning, textWs,
                     statusWs, oldSockets, probes, controls, mounted, received>>]_vars

\* C9 witness: a payload was dropped on the open transcript channel, which
\* holds fragments
C9_Witness ==
  /\ mounted
  /\ consoleError = "Failed to parse transcription message"
  /\ textWs = "OPEN"
  /\ Len(text) > 0

\* C10: a "status" message carrying a status object replaces the local
\* status by exactly that object
C10_StatusReplacedWholesale ==
  [][\A s \in StatusObjects :
       mounted /\ StatusMessage(StatusPayload(s)) => status' = s]_vars

\* C10 witness: after a failed probe had forced is_shut_down, a message with
\* only is_recording replaced the status, and nothing of the old one is left
C10_Witness ==
  /\ mounted /\ ~isServerRunning /\ textWs # "null"
  /\ status = [f \in {"is_recording"} |-> TRUE]

\* a step in which a probe got its answer
ProbeAnswered == BagCardinality(probes') < BagCardinality(probes)

\* C1: a failed probe shows the server offline and connectionPhase
\* disconnected; when a probe succeeds after that, the client brings both
\* channels up again: the transcript channel is connecting, or open with
\* connectionPhase connected, and the status channel is connecting or open
C1_Recovery ==
  [][/\ ProbeFailed => ~isServerRunning' /\ connectionStatus' = "disconnected"
     /\ ProbeSucceeded /\ ~isServerRunning =>
          /\ \/ textWs' = "CONNECTING"
             \/ textWs' = "OPEN" /\ connectionStatus' = "connected"
          /\ statusWs' \in {"CONNECTING", "OPEN"}]_vars

\* transcript channels that are connecting or open, the replaced ones included
LiveTranscriptChannels ==
  (IF textWs \in {"CONNECTING", "OPEN"} THEN 1 ELSE 0)
  + Cardinality({s \in oldSockets :
                   s.chan = "text" /\ s.readyState \in {"CONNECTING", "OPEN"}})

\* C5: at most one transcript channel is connecting or open, and a probe
\* answered while a connect attempt is in progress starts no second attempt
C5_IdempotentOpening ==
  /\ [](LiveTranscriptChannels <= 1)
  /\ [][textWs = "CONNECTING" /\ ProbeAnswered =>
          UNCHANGED <<textWs, statusWs, oldSockets>>]_vars

\* C5 witness: a probe succeeded while the attempt was in progress (the
\* failed probe before it had set disconnected, and the phase was left so)
C5_Witness ==
  /\ mounted /\ textWs = "CONNECTING"
  /\ isServerRunning /\ connectionStatus = "disconnected"

\* C6: connectionPhase starts disconnected and changes only along
\* disconnected -> connecting (successful probe), connecting -> connected
\* (transcript channel opens), connected or connecting -> disconnected
\* (channel close, or failed probe)
C6_ListedTransitionsOnly ==
  /\ connectionStatus = "disconnected"
  /\ [][connectionStatus' # connectionStatus =>
          \/ /\ connectionStatus = "disconnected" /\ connectionStatus' = "connecting"
             /\ ProbeSucceeded
          \/ /\ connectionStatus = "connecting" /\ connectionStatus' = "connected"
             /\ textWs = "CONNECTING" /\ textWs' = "OPEN"
          \/ /\ connectionStatus \in {"connected", "connecting"}
             /\ connectionStatus' = "disconnected"
             /\ \/ textWs' = "CLOSED" /\ textWs # "CLOSED"
                \/ statusWs' = "CLOSED" /\ statusWs # "CLOSED"
                \/ ProbeFailed]_vars

\* a step in which a channel of the mounted component closes
ChannelClosed ==
  /\ mounted
  /\ \/ textWs \in {"CONNECTING", "OPEN"} /\ textWs' = "CLOSED"
     \/ statusWs \in {"CONNECTING", "OPEN"} /\ statusWs' = "CLOSED"

\* a step in which a new socket is created
ChannelCreated ==
  \/ textWs' = "CONNECTING" /\ textWs # "CONNECTING"
  \/ statusWs' = "CONNECTING" /\ statusWs # "CONNECTING"
  \/ oldSockets' # oldSockets /\ oldSockets \subseteq oldSockets'

\* C7: when the transcript or the status channel closes, connectionPhase
\* becomes disconnected and no channel is created in that step; a channel is
\* created only in the step of a successful probe
C7_CloseDisconnectsWithoutReconnect ==
  [][/\ ChannelClosed => connectionStatus' = "disconnected" /\ ~ChannelCreated
     /\ mounted /\ ChannelCreated => ProbeSucceeded]_vars

\* a step that the hypothesis of C8 rules out from some point on: a probe
\* fails, or a channel that is connecting or open closes
Disturbance ==
  \/ \E c \in Phases : ProbeFail(c)
  \/ textWs \in {"CONNECTING", "OPEN"} /\ TextClose
  \/ statusWs \in {"CONNECTING", "OPEN"} /\ StatusClose

BothChannelsConnected ==
  textWs = "OPEN" /\ statusWs = "OPEN" /\ connectionStatus = "connected"

\* C8: if the component stays mounted and from some point on no probe fails
\* and no channel fails to open or is closed, then from some point on both
\* channels are open and connectionPhase is connected
C8_EventuallyConnected ==
  []mounted /\ <>[][~Disturbance]_vars => <>[]BothChannelsConnected

\* a step in which a control request leaves
ControlIssued == BagCardinality(controls') > BagCardinality(controls)

\* a step in which a control request gets its answer
ControlAnswered == BagCardinality(controls') < BagCardinality(controls)

\* C12 as claimed: after a start or shutdown action the control request is
\* issued, and when it is answered a probe starts in the same step, whatever
\* the answer
C12_ProbeAfterEveryControl ==
  [][/\ ControlIssued =>
          \E a \in Actions :
            controls' = controls (+) OneOf([action |-> a, conn |-> connectionStatus])
     /\ ControlAnswered =>
          BagCardinality(probes') = BagCardinality(probes) + 1]_vars

\* C12 amended: the control request of the pressed button is issued; when
\* its response is ok a probe starts in the same step, and when the response
\* is not ok or the request is rejected no probe starts
C12_ProbeAfterOkControl ==
  [][/\ ControlIssued =>
          \E a \in Actions :
            controls' = controls (+) OneOf([action |-> a, conn |-> connectionStatus])
     /\ \A r \in BagToSet(controls) :
          /\ ControlOk(r) => probes' = probes (+) OneOf(r.conn)
          /\ \A rejected \in BOOLEAN : ControlFail(r, rejected) => probes' = probes]_vars

\* C12 witness: a probe is in flight whose closure captured "connected":
\* only handleAction starts such a probe (the interval's captured the
\* first render)
C12_Witness == BagIn("connected", probes)

\* a step that creates a transcript or status socket
SocketCreated ==
  \/ textWs' = "CONNECTING" /\ textWs # "CONNECTING"
  \/ statusWs' = "CONNECTING" /\ statusWs # "CONNECTING"

\* C13: while the component is mounted the interval issues the probe in
\* every connectionPhase and channel state (whenever the model's MaxInFlight
\* lets a request leave); after teardown no channel is open, no probe is
\* issued and no channel is created
C13_PollingAndTeardown ==
  /\ [](mounted /\ InFlight < MaxInFlight => ENABLED Tick)
  /\ [](~mounted => textWs # "OPEN" /\ statusWs # "OPEN")
  /\ [][~mounted =>
          /\ BagCardinality(probes') <= BagCardinality(probes)
          /\ ~SocketCreated]_vars

\* C15: after a failed probe and until a probe succeeds (the server is
\* shown offline, and sockets exist, so a probe had succeeded before), the
\* local status has is_shut_down true
C15_ShutDownWhileOffline ==
  mounted /\ ~isServerRunning => Flag(status, "is_shut_down")

\* C17: connectionPhase is connected exactly when the current transcript
\* channel is open
C17_ConnectedIffTranscriptOpen ==
  mounted => (connectionStatus = "connected" <=> textWs = "OPEN")

\* C18: a start request leaves only when is_shut_down and not
\* is_initializing, a shutdown request only when not is_shut_down; the two
\* buttons are never both enabled, initially only start is, and right after
\* a failed probe start is enabled and shutdown is not
C18_ControlGating ==
  /\ ButtonEnabled("start", status) /\ ~ButtonEnabled("shutdown", status)
  /\ [](~(ButtonEnabled("start", status) /\ ButtonEnabled("shutdown", status)))
  /\ [][/\ \A c \in Phases :
            /\ controls' = controls (+) OneOf([action |-> "start", conn |-> c])
                 => Flag(status, "is_shut_down") /\ ~Flag(status, "is_initializing")
            /\ controls' = controls (+) OneOf([action |-> "shutdown", conn |-> c])
                 => ~Flag(status, "is_shut_down")
        /\ ProbeFailed =>
             ButtonEnabled("start", status') /\ ~ButtonEnabled("shutdown", status')]_vars

\* C18 witness: a shutdown request is in flight and the last probe failed
C18_Witness ==
  /\ mounted /\ ~isServerRunning /\ textWs # "null"
  /\ \E r \in BagToSet(controls) : r.action = "shutdown"

\* C16: a message on the transcript channel changes at most the buffer, and
\* only when its kind is "transcription"; a message on the status channel
\* changes at most the status, and only when its kind is "status"; a parsed
\* message of another kind changes nothing, and no message changes
\* connectionStatus or isServerRunning
C16_DispatchPerChannelAndKind ==
  [][/\ \A p \in TextChannelPayloads :
          TextMessage(p) =>
            /\ UNCHANGED <<status, connectionStatus, isServerRunning>>
            /\ ParseThrows(p) \/ p.type # "transcription" => text' = text
            /\ ~ParseThrows(p) /\ p.type # "transcription" => UNCHANGED vars
     /\ \A p \in PlainPayloads \cup LifecycleStatusPayloads :
          StatusMessage(p) =>
            /\ UNCHANGED <<text, connectionStatus, isServerRunning>>
            /\ ParseThrows(p) \/ p.type # "status" => status' = status
            /\ ~ParseThrows(p) /\ p.type # "status" => UNCHANGED vars]_vars

\* C16 witness: both channels are open, a transcription has extended the
\* buffer and a status message has replaced the status
C16_Witness ==
  /\ mounted /\ textWs = "OPEN" /\ statusWs = "OPEN"
  /\ received # << >> /\ text # << >>
  /\ status \notin {InitialStatus, FailedProbeStatus(status)}

\* new is old with something appended
Extends(old, new) ==
  Len(new) > Len(old) /\ SubSeq(new, 1, Len(old)) = old

\* C11: a step that changes the buffer is either the clear action or a
\* "transcription" message that extends it; every other step (probe
\* answers, channel events, status messages, start and shutdown, copy)
\* leaves the buffer as it is
C11_BufferEmptiedOnlyByClear ==
  [][text' # text =>
       \/ ClearText
       \/ \E p \in LifecycleTextPayloads :
            TextMessage(p) /\ p.type = "transcription" /\ Extends(text, text')]_vars

\* C11 witness: the buffer holds text, and was copied, while the server is
\* shown offline and the transcript channel has closed
C11_Witness ==
  /\ mounted /\ text # << >> /\ clipboard = text
  /\ ~isServerRunning /\ connectionStatus = "disconnected" /\ textWs = "CLOSED"

\* C14: the clear action empties the buffer and changes nothing of the
\* connection: no request leaves, no socket changes, and status,
\* connectionStatus and isServerRunning stay as they are
C14_ClearIsLocal ==
  [][/\ ClearText => text' = << >>
     /\ ClearText \/ (text # << >> /\ text' = << >>) =>
          UNCHANGED <<status, connectionStatus, isServerRunning, textWs,
                      statusWs, oldSockets, probes, controls>>]_vars

\* C14 witness: the buffer is empty although its text had been copied, the
\* channels are open and the status is the one the server sent
C14_Witness ==
  /\ mounted /\ text = << >> /\ clipboard \notin {ForeignText, << >>}
  /\ connectionStatus = "connected" /\ textWs = "OPEN" /\ statusWs = "OPEN"
  /\ Flag(status, "is_running")

====
